---- MODULE Spec2Model ----
(***************************************************************************)
(* Model of the go-pool concurrency core: the errgroup-backed Pool         *)
(* (src/pool.go) running retryable Tasks (src/worker.go, lines 1-70), the  *)
(* WaitGroup-backed Pool of package gopool (src/unnamed/part_007) and the  *)
(* two Drainers of src/drain.go.                                           *)
(*                                                                         *)
(* A Task object is identified by a number; the caller process configures  *)
(* the Pool, submits batches with Go and joins with Wait; every submitted  *)
(* entry runs the closure of Pool.Go in a goroutine of its own.            *)
(* Durations are integers (nanoseconds, as time.Duration).                 *)
(***************************************************************************)
EXTENDS Integers, Sequences, FiniteSets, TLC

\* ---------------------------------------------------------------- bounds
NumTasks == 2          \* distinct Task objects the caller has built
MaxAttempts == 2       \* largest attempts value passed to WithRetry
MaxLimit == 2          \* largest limit passed to WithLimit
MaxEntries == 2        \* entries submitted over all Go calls
MaxFailFirst == 1      \* an operation fails its first 0..MaxFailFirst calls
ExecMaxAttempts == 4   \* attempts of the Task executed directly
ExecMaxFailFirst == 4  \* failing calls of the Task executed directly
NumProducers == 2      \* goroutines that send to the Drainer
MaxSends == 2          \* Send calls of one producer
MaxDrains == 2         \* Drain calls of the reader
MaxShutDowns == 2      \* ShutDown calls on one Drainer
MaxCloses == 1         \* Close calls on one Pool

TaskIds == 1 .. NumTasks
Sleeps == {0, 2}       \* base delays handed to WithRetry
ExecSleeps == {0, 1, 2, 4}

\* ---------------------------------------------------------------- errors
\* The error returned by the n-th invocation of the operation of Task t is
\* the pair <<t, n>>: every invocation returns a different error value.
NoErr == <<0, 0>>

ErrOf(t, n) == <<t, n>>

\* What an operation does: fail on every call, or fail on its first
\* failFirst calls and succeed afterwards (the closures of the tests that
\* count their own invocations).
Behaviours(maxFail) ==
    {[always |-> TRUE, failFirst |-> 0]} \cup
    {[always |-> FALSE, failFirst |-> n] : n \in 0 .. maxFail}

VARIABLES
    testMode,      \* os.Getenv("STAGE") equals "test"
    task,          \* Task.attempts and Task.sleep of every Task object
    behaviour,     \* Task.fn of every Task object
    calls,         \* invocations of Task.fn made so far, per Task object
    semNil,        \* errgroup: g.sem == nil (no limit)
    semCap,        \* errgroup: cap(g.sem)
    semLen,        \* errgroup: len(g.sem)
    wg,            \* errgroup: g.wg counter
    gerr,          \* errgroup: g.err, written under g.errOnce
    retry,         \* Pool.retry
    errors,        \* Pool.errors
    mutex,         \* Pool.mutex: 0 when free, otherwise the holding entry
    workers,       \* Pool.workers
    entries,       \* the Task object of every goroutine started by group.Go
    pc,            \* position of every goroutine
    i,             \* Execute: loop counter i
    currentSleep,  \* Execute: currentSleep
    err,           \* Execute / closure: err
    snap,          \* append: the slice value read before the write
    slept,         \* durations passed to time.Sleep, per goroutine
    callerPc,      \* position of the caller
    pending,       \* Pool.Go: the part of Tasks not ranged over yet
    waitErr,       \* value returned by Pool.Wait
    crashed,       \* the process died of a panic
    started,       \* history: Execute calls begun, per entry
    submitted,     \* history: the batches handed to Go, in call order
    failOrder,     \* history: failing entries in the order they returned
    limitLate,     \* history: WithLimit was called after a submission
    ownPolicy,     \* history: attempts and sleep each Task was built with
    poolI,         \* executeTask: loop counter i, per goroutine
    poolSleep,     \* executeTask: currentSleep, per goroutine
    values,        \* Drain.values
    mu,            \* Drain.mu / Drain.mutex: "free" or the kind of holder
    chClosed,      \* Drain.ch has been closed
    doneClosed,    \* Drain.done has been closed
    cpc,           \* position of the collector goroutine
    cval,          \* collector: the value v it has received
    ppc,           \* position of every producer
    psent,         \* Send calls that have returned, per producer
    psnap,         \* Send: the slice value append has read, per producer
    rpc,           \* position of the reader (the caller of Drain)
    rbegin,        \* history: what had been sent when the Drain call began
    drains,        \* history: the Drain calls that have returned
    spc,           \* position of the goroutine that calls ShutDown
    shutdowns,     \* ShutDown calls made so far
    varr,          \* Drain.values: identity of its backing array (0: nil)
    vcap,          \* Drain.values: cap(d.values)
    retArr,        \* backing array of every slice Drain has returned
    retNow,        \* what every slice Drain has returned holds now
    closeLog       \* history: goroutines in flight at every Pool.Close call

vars == <<testMode, task, behaviour, calls, semNil, semCap, semLen, wg, gerr,
          retry, errors, mutex, workers, entries, pc, i, currentSleep, err,
          snap, slept, callerPc, pending, waitErr, crashed, started,
          submitted, failOrder, limitLate, ownPolicy, poolI, poolSleep,
          values, mu, chClosed, doneClosed, cpc, cval, ppc, psent, psnap, rpc,
          rbegin, drains, spc, shutdowns, varr, vcap, retArr, retNow,
          closeLog>>

poolVars == <<semNil, semCap, semLen, wg, gerr, retry, errors, mutex, workers>>
callerVars == <<callerPc, pending, waitErr>>
histVars == <<started, submitted, failOrder, limitLate>>
\* Variables no action of the errgroup Pool or of Execute writes.
drainVars == <<values, mu, chClosed, doneClosed, cpc, cval, ppc, psent, psnap,
               rpc, rbegin, drains, spc, shutdowns>>
\* The slices behind Drain.values and behind the results of Drain.
aliasVars == <<varr, vcap, retArr, retNow>>
extVars == <<ownPolicy, poolI, poolSleep, drainVars, aliasVars, closeLog>>

Entries == 1 .. Len(entries)

Producers == 1 .. NumProducers

\* No Drainer has been created: nothing is sent, drained or shut down.
NoDrainer ==
    /\ values = <<>>
    /\ mu = "free"
    /\ chClosed = FALSE
    /\ doneClosed = FALSE
    /\ cpc = "none"
    /\ cval = <<0, 0>>
    /\ ppc = [p \in Producers |-> "idle"]
    /\ psent = [p \in Producers |-> 0]
    /\ psnap = [p \in Producers |-> <<>>]
    /\ rpc = "idle"
    /\ rbegin = [sent |-> psent, quiet |-> TRUE]
    /\ drains = <<>>
    /\ spc = "idle"
    /\ shutdowns = 0

\* No slice of a Drainer is looked at (d.values is nil and nothing has been
\* returned) and Pool.Close has not been called.
NoAlias ==
    /\ varr = 0
    /\ vcap = 0
    /\ retArr = <<>>
    /\ retNow = <<>>
    /\ closeLog = <<>>

\* ----------------------------------------------------------- src/worker.go
\* NewTask: attempts 1, sleep 0.
NewTask == [attempts |-> 1, sleep |-> 0]

\* Task.WithRetry: overwrites both fields of the receiver and returns it.
TaskWithRetry(t, attempts, sleep) ==
    [task EXCEPT ![t] = [attempts |-> attempts, sleep |-> sleep]]

\* Task.fn: the error of the n-th invocation of the operation of Task t.
Promise(t, n) ==
    IF behaviour[t].always \/ n <= behaviour[t].failFirst
    THEN ErrOf(t, n)
    ELSE NoErr

\* rand.Int63n(n): panics when n <= 0, otherwise any value of 0 .. n-1.
Int63nPanics(n) == n <= 0

Int63n(n) == 0 .. (n - 1)

\* Execute, the loop test `i < t.attempts` (also taken after `continue`).
LoopTest(idx, attempts) == IF idx < attempts THEN "call" ELSE "executed"

\* Mutant of AfterCall: a failed invocation is never retried.
AfterCallNoRetry(r, idx, attempts) == "executed"

\* Mutant of AfterCall: a nil result does not end the loop while attempts
\* remain.
AfterCallIgnoresSuccess(r, idx, attempts) ==
    IF idx + 1 < attempts THEN "backoff" ELSE "executed"

\* Execute, lines 39-52: where the loop body goes with the result r of the
\* invocation: return nil, back off and retry, or return the error.
AfterCall(r, idx, attempts) ==
    IF r = NoErr THEN "executed"
    ELSE IF idx + 1 < attempts /\ r # NoErr THEN "backoff"
    ELSE "executed"

\* Execute, lines 36-37, on the Task table tk: currentSleep := t.sleep, i := 0
\* and the first loop test.
ExecuteEntry(e, tk) ==
    /\ started' = [started EXCEPT ![e] = @ + 1]
    /\ currentSleep' = [currentSleep EXCEPT ![e] = tk[entries[e]].sleep]
    /\ i' = [i EXCEPT ![e] = 0]
    /\ err' = [err EXCEPT ![e] = NoErr]
    /\ pc' = [pc EXCEPT ![e] = LoopTest(0, tk[entries[e]].attempts)]

\* A direct call of Execute (as in worker_test.go), lines 35-37.
ExecBegin(e) ==
    /\ ~crashed
    /\ pc[e] = "exec"
    /\ ExecuteEntry(e, task)
    /\ UNCHANGED extVars
    /\ UNCHANGED <<testMode, task, behaviour, calls, poolVars, entries, snap,
                   slept, callerVars, crashed, submitted, failOrder,
                   limitLate>>

\* Execute, lines 38-43 and 51: one invocation of t.fn and the branch taken
\* on its result.
ExecCall(e) ==
    LET t == entries[e]
        n == calls[t] + 1
        r == Promise(t, n)
    IN  /\ ~crashed
        /\ pc[e] = "call"
        /\ calls' = [calls EXCEPT ![t] = n]
        /\ err' = [err EXCEPT ![e] = r]
        /\ pc' = [pc EXCEPT ![e] = AfterCall(r, i[e], task[t].attempts)]
        /\ UNCHANGED extVars
        /\ UNCHANGED <<testMode, task, behaviour, poolVars, entries, i,
                       currentSleep, snap, slept, callerVars, crashed,
                       histVars>>

\* Execute, lines 44-47 and 37: jitter, time.Sleep, doubling, continue (i++
\* and the loop test; the function returns nil when the loop ends).
ExecBackoff(e) ==
    LET half == currentSleep[e] \div 2
        to == LoopTest(i[e] + 1, task[entries[e]].attempts)
    IN  /\ ~crashed
        /\ pc[e] = "backoff"
        /\ IF Int63nPanics(half)
           THEN /\ crashed' = TRUE
                /\ UNCHANGED <<pc, i, currentSleep, slept, err>>
           ELSE \E jitter \in Int63n(half) :
                /\ slept' = [slept EXCEPT ![e] =
                                Append(@, currentSleep[e] + jitter)]
                /\ currentSleep' = [currentSleep EXCEPT ![e] = @ * 2]
                /\ i' = [i EXCEPT ![e] = @ + 1]
                /\ err' = [err EXCEPT ![e] = IF to = "call" THEN @ ELSE NoErr]
                /\ pc' = [pc EXCEPT ![e] = to]
                /\ UNCHANGED crashed
        /\ UNCHANGED extVars
        /\ UNCHANGED <<testMode, task, behaviour, calls, poolVars, entries,
                       snap, callerVars, histVars>>

\* ------------------------------------------------------------- src/pool.go
\* retryConfig; Pool.retry == nil is set |-> FALSE.
NoRetry == [set |-> FALSE, attempts |-> 0, sleep |-> 0]

\* errgroup SetLimit as called by NewPool and WithLimit: a negative n removes
\* the semaphore, otherwise a non-empty semaphore is a panic and an empty one
\* is replaced by a fresh channel of capacity n.
SetLimit(n) ==
    IF n < 0
    THEN /\ semNil' = TRUE
         /\ semLen' = 0
         /\ UNCHANGED <<semCap, crashed>>
    ELSE IF semLen # 0
    THEN /\ crashed' = TRUE
         /\ UNCHANGED <<semNil, semCap, semLen>>
    ELSE /\ semNil' = FALSE
         /\ semCap' = n
         /\ semLen' = 0
         /\ UNCHANGED crashed

\* The caller is between two calls on the Pool.
CallerReady == callerPc \in {"new", "limited", "idle"}

\* Pool.WithLimit: the limit is forced to 1 when STAGE is "test". The caller
\* calls it right after NewPool or, once, after a submission.
WithLimit(limit) ==
    /\ ~crashed
    /\ \/ callerPc = "new"
       \/ callerPc = "idle" /\ entries # <<>> /\ ~limitLate
    /\ SetLimit(IF testMode THEN 1 ELSE limit)
    /\ limitLate' = (entries # <<>>)
    /\ callerPc' = IF callerPc = "new" THEN "limited" ELSE callerPc
    /\ UNCHANGED extVars
    /\ UNCHANGED <<testMode, task, behaviour, calls, wg, gerr, retry, errors,
                   mutex, workers, entries, pc, i, currentSleep, err, snap,
                   slept, pending, waitErr, started, submitted, failOrder>>

\* Pool.WithRetry, called before the first submission.
WithRetry(attempts, sleep) ==
    /\ ~crashed
    /\ callerPc \in {"new", "limited"}
    /\ retry' = [set |-> TRUE, attempts |-> attempts, sleep |-> sleep]
    /\ callerPc' = "idle"
    /\ UNCHANGED extVars
    /\ UNCHANGED <<testMode, task, behaviour, calls, semNil, semCap, semLen,
                   wg, gerr, errors, mutex, workers, entries, pc, i,
                   currentSleep, err, snap, slept, pending, waitErr, crashed,
                   histVars>>

\* Mutant of RangeOver: the loop visits the Tasks from the last to the
\* first.
RangeBackwards(Tasks) ==
    [k \in 1 .. Len(Tasks) |-> Tasks[Len(Tasks) + 1 - k]]

\* Pool.Go, line 31: `for _, t := range Tasks` visits the elements in
\* index order.
RangeOver(Tasks) == Tasks

\* Pool.Go, line 30: p.workers = Tasks, then the range loop begins.
Go(Tasks) ==
    /\ ~crashed
    /\ CallerReady
    /\ Len(entries) + Len(Tasks) <= MaxEntries
    /\ workers' = Tasks
    /\ pending' = RangeOver(Tasks)
    /\ submitted' = Append(submitted, Tasks)
    /\ callerPc' = "go"
    /\ UNCHANGED extVars
    /\ UNCHANGED <<testMode, task, behaviour, calls, semNil, semCap, semLen,
                   wg, gerr, retry, errors, mutex, entries, pc, i,
                   currentSleep, err, snap, slept, waitErr, crashed, started,
                   failOrder, limitLate>>

\* Mutant of SemFull: group.Go never waits for a free slot.
SemFullNever == FALSE

\* Mutant of SemFull: the semaphore admits one goroutine more than its
\* capacity.
SemFullOneMore == ~semNil /\ semLen >= semCap + 1

\* errgroup Go: `g.sem <- token{}` blocks while the semaphore is full.
SemFull == ~semNil /\ semLen >= semCap

\* Mutant of LoopVar: every closure sees the loop variable's last value.
LoopVarShared(rest) == rest[Len(rest)]

\* Pool.Go, line 31: the element the range loop hands to the closure.
LoopVar(rest) == Head(rest)

\* Pool.Go, lines 31-32 and 48-50: one p.group.Go call of the loop. errgroup
\* sends a token to the semaphore (blocking the caller while it is full),
\* adds one to the wait group and starts the goroutine; after the last
\* element Pool.Go returns.
GroupGo ==
    /\ ~crashed
    /\ callerPc = "go"
    /\ ~SemFull
    /\ semLen' = IF semNil THEN semLen ELSE semLen + 1
    /\ wg' = wg + 1
    /\ entries' = Append(entries, LoopVar(pending))
    /\ pc' = Append(pc, "start")
    /\ i' = Append(i, 0)
    /\ currentSleep' = Append(currentSleep, 0)
    /\ err' = Append(err, NoErr)
    /\ snap' = Append(snap, <<>>)
    /\ slept' = Append(slept, <<>>)
    /\ started' = Append(started, 0)
    /\ pending' = Tail(pending)
    /\ callerPc' = IF Tail(pending) = <<>> THEN "idle" ELSE "go"
    /\ UNCHANGED extVars
    /\ UNCHANGED <<testMode, task, behaviour, calls, semNil, semCap, gerr,
                   retry, errors, mutex, workers, waitErr, crashed, submitted,
                   failOrder, limitLate>>

\* Mutant of ApplyRetry: the pool-wide retry configuration is ignored.
ApplyRetryNever(e) == task

\* Closure of Pool.Go, lines 33-36: the Task table after the pool-wide retry
\* configuration, when there is one, has been written into the Task object.
ApplyRetry(e) ==
    IF retry.set
    THEN TaskWithRetry(entries[e], retry.attempts, retry.sleep)
    ELSE task

\* Mutant of ClosureStart: a closure started after a sibling has failed
\* returns without executing its Task (fail-fast cancellation).
ClosureStartFailFast(e) ==
    /\ ~crashed
    /\ pc[e] = "start"
    /\ IF gerr # NoErr
       THEN /\ pc' = [pc EXCEPT ![e] = "ret"]
            /\ UNCHANGED <<task, started, currentSleep, i, err>>
       ELSE /\ task' = ApplyRetry(e)
            /\ ExecuteEntry(e, task')
    /\ UNCHANGED extVars
    /\ UNCHANGED <<testMode, behaviour, calls, poolVars, entries, snap, slept,
                   callerVars, crashed, submitted, failOrder, limitLate>>

\* Closure of Pool.Go, lines 33-38: the retry override and the call of
\* t.Execute().
ClosureStart(e) ==
    /\ ~crashed
    /\ pc[e] = "start"
    /\ task' = ApplyRetry(e)
    /\ ExecuteEntry(e, task')
    /\ UNCHANGED extVars
    /\ UNCHANGED <<testMode, behaviour, calls, poolVars, entries, snap, slept,
                   callerVars, crashed, submitted, failOrder, limitLate>>

\* Mutant of MutexFree: the append is not guarded.
MutexFreeAlways == TRUE

\* Mutant of MutexFree: a lock held by the goroutine of entry 1 excludes
\* nobody.
MutexFreeOrFirst == mutex \in {0, 1}

\* p.mutex.Lock() blocks while another goroutine holds the mutex.
MutexFree == mutex = 0

\* Closure of Pool.Go, lines 39-42: Execute returned a non-nil error; the
\* closure takes p.mutex and append reads the slice p.errors.
ClosureLock(e) ==
    /\ ~crashed
    /\ pc[e] = "executed"
    /\ err[e] # NoErr
    /\ MutexFree
    /\ mutex' = e
    /\ snap' = [snap EXCEPT ![e] = errors]
    /\ pc' = [pc EXCEPT ![e] = "locked"]
    /\ UNCHANGED extVars
    /\ UNCHANGED <<testMode, task, behaviour, calls, semNil, semCap, semLen,
                   wg, gerr, retry, errors, workers, entries, i, currentSleep,
                   err, slept, callerVars, crashed, histVars>>

\* Mutant of SliceAppend: the new element is put in front.
SlicePrepend(s, x) == <<x>> \o s

\* Mutant of SliceAppend: the slice is stored back without the new element.
SliceAppendLost(s, x) == s

\* Closure of Pool.Go, line 42: append(p.errors, err) on the slice value s.
SliceAppend(s, x) == Append(s, x)

\* Closure of Pool.Go, lines 42-43: the grown slice is stored and the mutex
\* released.
ClosureAppend(e) ==
    /\ ~crashed
    /\ pc[e] = "locked"
    /\ errors' = SliceAppend(snap[e], err[e])
    /\ mutex' = IF mutex = e THEN 0 ELSE mutex
    /\ pc' = [pc EXCEPT ![e] = "ret"]
    /\ UNCHANGED extVars
    /\ UNCHANGED <<testMode, task, behaviour, calls, semNil, semCap, semLen,
                   wg, gerr, retry, workers, entries, i, currentSleep, err,
                   snap, slept, callerVars, crashed, histVars>>

\* Mutant of ErrOnce: every non-nil error overwrites the stored one.
ErrLastWins(old, new) == IF new # NoErr THEN new ELSE old

\* Mutant of ErrOnce: the error of a later invocation replaces the stored
\* one.
ErrLatestCall(old, new) ==
    IF new # NoErr /\ (old = NoErr \/ new[2] >= old[2]) THEN new ELSE old

\* errgroup: g.errOnce.Do stores the first non-nil error only.
ErrOnce(old, new) == IF new # NoErr /\ old = NoErr THEN new ELSE old

\* Closure of Pool.Go, line 46, and the errgroup goroutine around it: the
\* closure returns err (nil straight after Execute, non-nil after the
\* collection); errgroup stores the first non-nil error, then done() takes
\* a token back from the semaphore and decrements the wait group.
ClosureReturn(e) ==
    /\ ~crashed
    /\ pc[e] = "ret" \/ (pc[e] = "executed" /\ err[e] = NoErr)
    /\ semNil \/ semLen > 0
    /\ gerr' = ErrOnce(gerr, err[e])
    /\ failOrder' = IF err[e] # NoErr THEN Append(failOrder, e) ELSE failOrder
    /\ semLen' = IF semNil THEN semLen ELSE semLen - 1
    /\ wg' = wg - 1
    /\ pc' = [pc EXCEPT ![e] = "done"]
    /\ UNCHANGED extVars
    /\ UNCHANGED <<testMode, task, behaviour, calls, semNil, semCap, retry,
                   errors, mutex, workers, entries, i, currentSleep, err, snap,
                   slept, callerVars, crashed, started, submitted, limitLate>>

\* Pool.Wait, line 55: the caller enters p.group.Wait().
Wait ==
    /\ ~crashed
    /\ CallerReady
    /\ callerPc' = "waiting"
    /\ UNCHANGED extVars
    /\ UNCHANGED <<testMode, task, behaviour, calls, poolVars, entries, pc, i,
                   currentSleep, err, snap, slept, pending, waitErr, crashed,
                   histVars>>

\* Mutant of GroupDone: group.Wait returns without waiting.
GroupDoneAtOnce == TRUE

\* Mutant of GroupDone: group.Wait returns while one goroutine still runs.
GroupDoneButOne == wg <= 1

\* errgroup Wait: g.wg.Wait() returns when the counter is zero.
GroupDone == wg = 0

\* Pool.Wait, lines 55-61: the wait group has reached zero; g.err is
\* returned.
WaitReturn ==
    /\ ~crashed
    /\ callerPc = "waiting"
    /\ GroupDone
    /\ waitErr' = gerr
    /\ callerPc' = "returned"
    /\ UNCHANGED extVars
    /\ UNCHANGED <<testMode, task, behaviour, calls, poolVars, entries, pc, i,
                   currentSleep, err, snap, slept, pending, crashed, histVars>>

\* Pool.Errors.
Errors == <<errors, Len(errors) > 0>>

\* ------------------------------------------------------------ specification
LimitArgs == {-1} \cup (1 .. MaxLimit)

\* The arguments of WithRetry: the base delay matters from two attempts on.
RetryArgs(maxAttempts, sleeps) ==
    {NewTask} \cup [attempts : 2 .. maxAttempts, sleep : sleeps]

Batches == UNION {[1 .. n -> TaskIds] : n \in 1 .. MaxEntries}

\* NewPool, lines 70-87.
NewPool ==
    /\ semNil = ~testMode
    /\ semCap = (IF testMode THEN 1 ELSE 0)
    /\ semLen = 0
    /\ wg = 0
    /\ gerr = NoErr
    /\ retry = NoRetry
    /\ errors = <<>>
    /\ mutex = 0
    /\ workers = <<>>

\* NewPool and the Tasks the caller has built with NewTask and
\* Task.WithRetry, before any call on the Pool.
Init ==
    /\ testMode \in BOOLEAN
    /\ task \in [TaskIds -> RetryArgs(MaxAttempts, Sleeps)]
    /\ behaviour \in [TaskIds -> Behaviours(MaxFailFirst)]
    /\ calls = [t \in TaskIds |-> 0]
    /\ NewPool
    /\ entries = <<>>
    /\ pc = <<>>
    /\ i = <<>>
    /\ currentSleep = <<>>
    /\ err = <<>>
    /\ snap = <<>>
    /\ slept = <<>>
    /\ callerPc = "new"
    /\ pending = <<>>
    /\ waitErr = NoErr
    /\ crashed = FALSE
    /\ started = <<>>
    /\ submitted = <<>>
    /\ failOrder = <<>>
    /\ limitLate = FALSE
    /\ ownPolicy = task
    /\ NoAlias
    /\ poolI = <<>>
    /\ poolSleep = <<>>
    /\ NoDrainer

\* One step of the goroutine of entry e.
Goroutine(e) ==
    \/ ClosureStart(e)
    \/ ExecCall(e)
    \/ ExecBackoff(e)
    \/ ClosureLock(e)
    \/ ClosureAppend(e)
    \/ ClosureReturn(e)

Next ==
    \/ \E limit \in LimitArgs : WithLimit(limit)
    \/ \E r \in RetryArgs(MaxAttempts, Sleeps) : WithRetry(r.attempts, r.sleep)
    \/ \E Tasks \in Batches : Go(Tasks)
    \/ GroupGo
    \/ Wait
    \/ WaitReturn
    \/ \E e \in Entries : ClosureStart(e)
    \/ \E e \in Entries : ExecCall(e)
    \/ \E e \in Entries : ExecBackoff(e)
    \/ \E e \in Entries : ClosureLock(e)
    \/ \E e \in Entries : ClosureAppend(e)
    \/ \E e \in Entries : ClosureReturn(e)

Spec == Init /\ [][Next]_vars

\* The Go scheduler runs every runnable goroutine eventually: a goroutine
\* that can take a step, the caller blocked in group.Go and the caller
\* blocked in group.Wait are not postponed forever.
Fairness ==
    /\ \A e \in 1 .. MaxEntries : WF_vars(e \in Entries /\ Goroutine(e))
    /\ WF_vars(GroupGo)
    /\ WF_vars(WaitReturn)

FairSpec == Spec /\ Fairness

\* ------------------------------------------------- Execute called directly
\* One Task, built with NewTask(fn).WithRetry(attempts, sleep), on which the
\* caller calls Execute() itself (worker_test.go); there is no Pool activity.
ExecInit ==
    /\ testMode = FALSE
    /\ \E cfg \in [attempts : 0 .. ExecMaxAttempts, sleep : ExecSleeps] :
          task = [t \in TaskIds |-> IF t = 1 THEN cfg ELSE NewTask]
    /\ \E b \in Behaviours(ExecMaxFailFirst) :
          behaviour = [t \in TaskIds |->
                          IF t = 1 THEN b
                          ELSE [always |-> FALSE, failFirst |-> 0]]
    /\ calls = [t \in TaskIds |-> 0]
    /\ NewPool
    /\ entries = <<1>>
    /\ pc = <<"exec">>
    /\ i = <<0>>
    /\ currentSleep = <<0>>
    /\ err = <<NoErr>>
    /\ snap = <<(<<>>)>>
    /\ slept = <<(<<>>)>>
    /\ callerPc = "direct"
    /\ pending = <<>>
    /\ waitErr = NoErr
    /\ crashed = FALSE
    /\ started = <<0>>
    /\ submitted = <<>>
    /\ failOrder = <<>>
    /\ limitLate = FALSE
    /\ ownPolicy = task
    /\ NoAlias
    /\ poolI = <<>>
    /\ poolSleep = <<>>
    /\ NoDrainer

ExecNext ==
    \/ \E e \in Entries : ExecBegin(e)
    \/ \E e \in Entries : ExecCall(e)
    \/ \E e \in Entries : ExecBackoff(e)

ExecSpec == ExecInit /\ [][ExecNext]_vars

\* ------------------------------------------------------- src/pool.go, Close
\* Pool.Close, lines 110-112: g.ctx.Done() returns the context's channel,
\* which is dropped; nothing of the Pool or of its goroutines changes. The
\* call is recorded with the number of goroutines that have not finished.
Close ==
    /\ ~crashed
    /\ CallerReady
    /\ Len(closeLog) < MaxCloses
    /\ closeLog' = Append(closeLog,
                          Cardinality({e \in Entries : pc[e] # "done"}))
    /\ UNCHANGED <<testMode, task, behaviour, calls, poolVars, entries, pc, i,
                   currentSleep, err, snap, slept, callerVars, crashed,
                   histVars, ownPolicy, poolI, poolSleep, drainVars,
                   aliasVars>>

\* The base delays of the Tasks of a Pool that is closed.
CloseSleeps == {2}

\* NewPool and the Tasks the caller has built; the caller submits, closes
\* and waits.
CloseInit ==
    /\ testMode \in BOOLEAN
    /\ task \in [TaskIds -> RetryArgs(MaxAttempts, CloseSleeps)]
    /\ behaviour \in [TaskIds -> Behaviours(MaxFailFirst)]
    /\ calls = [t \in TaskIds |-> 0]
    /\ NewPool
    /\ entries = <<>>
    /\ pc = <<>>
    /\ i = <<>>
    /\ currentSleep = <<>>
    /\ err = <<>>
    /\ snap = <<>>
    /\ slept = <<>>
    /\ callerPc = "idle"
    /\ pending = <<>>
    /\ waitErr = NoErr
    /\ crashed = FALSE
    /\ started = <<>>
    /\ submitted = <<>>
    /\ failOrder = <<>>
    /\ limitLate = FALSE
    /\ ownPolicy = task
    /\ NoAlias
    /\ poolI = <<>>
    /\ poolSleep = <<>>
    /\ NoDrainer

CloseNext ==
    \/ Close
    \/ \E Tasks \in Batches : Go(Tasks)
    \/ GroupGo
    \/ Wait
    \/ WaitReturn
    \/ \E e \in Entries : ClosureStart(e)
    \/ \E e \in Entries : ExecCall(e)
    \/ \E e \in Entries : ExecBackoff(e)
    \/ \E e \in Entries : ClosureLock(e)
    \/ \E e \in Entries : ClosureAppend(e)
    \/ \E e \in Entries : ClosureReturn(e)

CloseSpec == CloseInit /\ [][CloseNext]_vars

\* ------------- TestConcurrentClientWithAllRetry (pool_test.go lines 161-191)
\* Task 1 is A, whose operation always fails with "bye 1"; Task 2 is B,
\* whose operation fails with "bye 2" unless the counter numInvocations,
\* which both operations increment, is greater than 1. The counter is the
\* sum of calls over both Tasks.

\* WithRetry(3, ...), line 180.
AllRetryAttempts == 3

\* The base delay of line 180, scaled down.
AllRetrySleeps == {2}

\* numInvocations.
NumInvocations == calls[1] + calls[2]

\* The operations of lines 165-177: the result of the invocation of Task t
\* that raises the counter to total, the n-th invocation of t.
TestPromise(t, n, total) ==
    IF t = 1 THEN ErrOf(1, n)
    ELSE IF total > 1 THEN NoErr
    ELSE ErrOf(2, n)

\* Execute, lines 38-43 and 51, with the operations of the test.
ARCall(e) ==
    LET t == entries[e]
        n == calls[t] + 1
        r == TestPromise(t, n, NumInvocations + 1)
    IN  /\ ~crashed
        /\ pc[e] = "call"
        /\ calls' = [calls EXCEPT ![t] = n]
        /\ err' = [err EXCEPT ![e] = r]
        /\ pc' = [pc EXCEPT ![e] = AfterCall(r, i[e], task[t].attempts)]
        /\ UNCHANGED extVars
        /\ UNCHANGED <<testMode, task, behaviour, poolVars, entries, i,
                       currentSleep, snap, slept, callerVars, crashed,
                       histVars>>

\* async.NewPool().WithRetry(3, ...), line 180.
ARWithRetry ==
    \E sleep \in AllRetrySleeps : WithRetry(AllRetryAttempts, sleep)

\* async.Go(requests...), line 182, with requests = [A, B].
ARGo == callerPc = "idle" /\ entries = <<>> /\ Go(<<1, 2>>)

\* The two Tasks built with NewTask and a new Pool, in test mode or not.
ARInit ==
    /\ testMode \in BOOLEAN
    /\ task = [t \in TaskIds |-> NewTask]
    /\ behaviour = [t \in TaskIds |->
                       [always |-> (t = 1), failFirst |-> 0]]
    /\ calls = [t \in TaskIds |-> 0]
    /\ NewPool
    /\ entries = <<>>
    /\ pc = <<>>
    /\ i = <<>>
    /\ currentSleep = <<>>
    /\ err = <<>>
    /\ snap = <<>>
    /\ slept = <<>>
    /\ callerPc = "new"
    /\ pending = <<>>
    /\ waitErr = NoErr
    /\ crashed = FALSE
    /\ started = <<>>
    /\ submitted = <<>>
    /\ failOrder = <<>>
    /\ limitLate = FALSE
    /\ ownPolicy = task
    /\ NoAlias
    /\ poolI = <<>>
    /\ poolSleep = <<>>
    /\ NoDrainer

ARNext ==
    \/ ARWithRetry
    \/ ARGo
    \/ GroupGo
    \/ Wait
    \/ WaitReturn
    \/ \E e \in Entries : ClosureStart(e)
    \/ \E e \in Entries : ARCall(e)
    \/ \E e \in Entries : ExecBackoff(e)
    \/ \E e \in Entries : ClosureLock(e)
    \/ \E e \in Entries : ClosureAppend(e)
    \/ \E e \in Entries : ClosureReturn(e)

AllRetrySpec == ARInit /\ [][ARNext]_vars

\* ------------------------------------- the WaitGroup Pool (unnamed/part_007)
\* The revision of package gopool: Pool (src/unnamed/part_007) keeps its own
\* attempts and sleep, here in the record `retry` (whose field `set` records
\* that WithRetry was called), and runs every Worker with executeTask; its
\* Tasks are those of src/unnamed/part_001, whose Execute has a retry loop of
\* its own with a fixed jitter.

\* Variables the WaitGroup Pool never touches.
gpFrame == <<testMode, semNil, semCap, semLen, errors, mutex, workers, snap,
             crashed, failOrder, limitLate, ownPolicy, drainVars,
             aliasVars, closeLog>>

\* part_007 NewPool: attempts 1, sleep 0, nothing running.
GPNewPool ==
    /\ retry = [set |-> FALSE, attempts |-> 1, sleep |-> 0]
    /\ wg = 0
    /\ gerr = NoErr

\* part_007 Pool.WithRetry, called before the first submission.
GPWithRetry(attempts, sleep) ==
    /\ callerPc = "new"
    /\ retry' = [set |-> TRUE, attempts |-> attempts, sleep |-> sleep]
    /\ callerPc' = "idle"
    /\ UNCHANGED <<gpFrame, task, behaviour, calls, wg, gerr, entries, pc, i,
                   currentSleep, err, slept, pending, waitErr, started,
                   submitted, poolI, poolSleep>>

\* part_007 Pool.Go: wg.Add(1) and `go executeTask(p, task)` for every task;
\* nothing in the loop blocks.
GPGo(Tasks) ==
    LET n == Len(Tasks)
    IN  /\ callerPc \in {"new", "idle"}
        /\ Len(entries) + n <= MaxEntries
        /\ wg' = wg + n
        /\ entries' = entries \o Tasks
        /\ pc' = pc \o [k \in 1 .. n |-> "gpstart"]
        /\ i' = i \o [k \in 1 .. n |-> 0]
        /\ currentSleep' = currentSleep \o [k \in 1 .. n |-> 0]
        /\ poolI' = poolI \o [k \in 1 .. n |-> 0]
        /\ poolSleep' = poolSleep \o [k \in 1 .. n |-> 0]
        /\ err' = err \o [k \in 1 .. n |-> NoErr]
        /\ slept' = slept \o [k \in 1 .. n |-> <<>>]
        /\ started' = started \o [k \in 1 .. n |-> 0]
        /\ submitted' = Append(submitted, Tasks)
        /\ callerPc' = "idle"
        /\ UNCHANGED <<gpFrame, task, behaviour, calls, gerr, retry, pending,
                       waitErr>>

\* executeTask, line 43: the loop test `i < p.attempts`.
GPLoopTest(idx) == IF idx < retry.attempts THEN "gpexec" ELSE "gpdone"

\* executeTask, lines 41-43: currentSleep := p.sleep, i := 0 and the first
\* loop test.
GPStart(e) ==
    /\ pc[e] = "gpstart"
    /\ poolSleep' = [poolSleep EXCEPT ![e] = retry.sleep]
    /\ poolI' = [poolI EXCEPT ![e] = 0]
    /\ pc' = [pc EXCEPT ![e] = GPLoopTest(0)]
    /\ UNCHANGED <<gpFrame, task, behaviour, calls, wg, gerr, retry, entries,
                   i, currentSleep, err, slept, callerVars, started,
                   submitted>>

\* executeTask, line 44, and part_001 Execute, lines 65-66: w.Execute() is
\* entered; currentSleep := t.sleep, i := 0 and the first loop test.
GPExecute(e) ==
    /\ pc[e] = "gpexec"
    /\ started' = [started EXCEPT ![e] = @ + 1]
    /\ currentSleep' = [currentSleep EXCEPT ![e] = task[entries[e]].sleep]
    /\ i' = [i EXCEPT ![e] = 0]
    /\ err' = [err EXCEPT ![e] = NoErr]
    /\ pc' = [pc EXCEPT ![e] =
                 IF 0 < task[entries[e]].attempts THEN "gpcall" ELSE "gpret"]
    /\ UNCHANGED <<gpFrame, task, behaviour, calls, wg, gerr, retry, entries,
                   slept, callerVars, submitted, poolI, poolSleep>>

\* part_001 Execute, lines 67-71 and 77: one invocation of t.fn; nil and
\* the error of the last attempt are returned, any other error is retried.
GPCall(e) ==
    LET t == entries[e]
        n == calls[t] + 1
        r == Promise(t, n)
    IN  /\ pc[e] = "gpcall"
        /\ calls' = [calls EXCEPT ![t] = n]
        /\ err' = [err EXCEPT ![e] = r]
        /\ pc' = [pc EXCEPT ![e] =
                     IF r = NoErr THEN "gpret"
                     ELSE IF i[e] + 1 < task[t].attempts THEN "gpsleep"
                     ELSE "gpret"]
        /\ UNCHANGED <<gpFrame, task, behaviour, wg, gerr, retry, entries, i,
                       currentSleep, slept, callerVars, started, submitted,
                       poolI, poolSleep>>

\* part_001 Execute, lines 72-75 and 66: the jitter is half the current
\* sleep; time.Sleep, doubling, continue (i++ and the loop test, which
\* holds).
GPSleep(e) ==
    LET jitter == currentSleep[e] \div 2
    IN  /\ pc[e] = "gpsleep"
        /\ slept' = [slept EXCEPT ![e] = Append(@, currentSleep[e] + jitter)]
        /\ currentSleep' = [currentSleep EXCEPT ![e] = @ * 2]
        /\ i' = [i EXCEPT ![e] = @ + 1]
        /\ pc' = [pc EXCEPT ![e] = "gpcall"]
        /\ UNCHANGED <<gpFrame, task, behaviour, calls, wg, gerr, retry,
                       entries, err, callerVars, started, submitted, poolI,
                       poolSleep>>

\* executeTask, lines 45-60, after w.Execute() returned err: nil ends the
\* goroutine; with attempts left it sleeps currentSleep + currentSleep/2,
\* doubles and calls Execute again; otherwise the first error is kept under
\* errOnce and the loop ends.
GPAfterExecute(e) ==
    LET jitter == poolSleep[e] \div 2
    IN  /\ pc[e] = "gpret"
        /\ IF err[e] = NoErr
           THEN /\ pc' = [pc EXCEPT ![e] = "gpdone"]
                /\ UNCHANGED <<gerr, slept, poolI, poolSleep>>
           ELSE IF poolI[e] + 1 < retry.attempts
           THEN /\ slept' = [slept EXCEPT ![e] =
                                Append(@, poolSleep[e] + jitter)]
                /\ poolSleep' = [poolSleep EXCEPT ![e] = @ * 2]
                /\ poolI' = [poolI EXCEPT ![e] = @ + 1]
                /\ pc' = [pc EXCEPT ![e] = GPLoopTest(poolI[e] + 1)]
                /\ UNCHANGED gerr
           ELSE /\ gerr' = ErrOnce(gerr, err[e])
                /\ poolI' = [poolI EXCEPT ![e] = @ + 1]
                /\ pc' = [pc EXCEPT ![e] = GPLoopTest(poolI[e] + 1)]
                /\ UNCHANGED <<slept, poolSleep>>
        /\ UNCHANGED <<gpFrame, task, behaviour, calls, wg, retry, entries, i,
                       currentSleep, err, callerVars, started, submitted>>

\* executeTask, line 41: the deferred p.wg.Done().
GPDone(e) ==
    /\ pc[e] = "gpdone"
    /\ wg' = wg - 1
    /\ pc' = [pc EXCEPT ![e] = "done"]
    /\ UNCHANGED <<gpFrame, task, behaviour, calls, gerr, retry, entries, i,
                   currentSleep, err, slept, callerVars, started, submitted,
                   poolI, poolSleep>>

\* part_007 Pool.Wait, line 65: the caller enters p.wg.Wait().
GPWait ==
    /\ callerPc \in {"new", "idle"}
    /\ callerPc' = "waiting"
    /\ UNCHANGED <<gpFrame, task, behaviour, calls, wg, gerr, retry, entries,
                   pc, i, currentSleep, err, slept, pending, waitErr, started,
                   submitted, poolI, poolSleep>>

\* part_007 Pool.Wait, lines 65-66: the counter is zero; p.err is returned.
GPWaitReturn ==
    /\ callerPc = "waiting"
    /\ wg = 0
    /\ waitErr' = gerr
    /\ callerPc' = "returned"
    /\ UNCHANGED <<gpFrame, task, behaviour, calls, wg, gerr, retry, entries,
                   pc, i, currentSleep, err, slept, pending, started,
                   submitted, poolI, poolSleep>>

\* part_007 NewPool and the Tasks the caller has built.
GPInit ==
    /\ testMode = FALSE
    /\ task \in [TaskIds -> RetryArgs(MaxAttempts, Sleeps)]
    /\ behaviour \in [TaskIds -> Behaviours(MaxFailFirst)]
    /\ calls = [t \in TaskIds |-> 0]
    /\ GPNewPool
    /\ semNil = TRUE
    /\ semCap = 0
    /\ semLen = 0
    /\ errors = <<>>
    /\ mutex = 0
    /\ workers = <<>>
    /\ entries = <<>>
    /\ pc = <<>>
    /\ i = <<>>
    /\ currentSleep = <<>>
    /\ err = <<>>
    /\ snap = <<>>
    /\ slept = <<>>
    /\ callerPc = "new"
    /\ pending = <<>>
    /\ waitErr = NoErr
    /\ crashed = FALSE
    /\ started = <<>>
    /\ submitted = <<>>
    /\ failOrder = <<>>
    /\ limitLate = FALSE
    /\ ownPolicy = task
    /\ NoAlias
    /\ poolI = <<>>
    /\ poolSleep = <<>>
    /\ NoDrainer

GPNext ==
    \/ \E r \in RetryArgs(MaxAttempts, Sleeps) :
          GPWithRetry(r.attempts, r.sleep)
    \/ \E Tasks \in Batches : GPGo(Tasks)
    \/ GPWait
    \/ GPWaitReturn
    \/ \E e \in Entries : GPStart(e)
    \/ \E e \in Entries : GPExecute(e)
    \/ \E e \in Entries : GPCall(e)
    \/ \E e \in Entries : GPSleep(e)
    \/ \E e \in Entries : GPAfterExecute(e)
    \/ \E e \in Entries : GPDone(e)

GPSpec == GPInit /\ [][GPNext]_vars

\* ------------------------------------- src/drain.go, lines 1-42 (mutex Drain)
\* Variables of the Pools and of Execute, which no Drainer operation writes.
poolSide == <<testMode, task, behaviour, calls, poolVars, entries, pc, i,
              currentSleep, err, snap, slept, callerVars, histVars, ownPolicy,
              poolI, poolSleep, aliasVars, closeLog>>

\* The k-th value producer p sends: all sent values are different.
ValueOf(p, k) == <<p, k>>

\* Send calls begun by producer p, returned or not.
Begun(p) == psent[p] + (IF ppc[p] = "idle" THEN 0 ELSE 1)

\* No Send call is in progress.
ProducersIdle == \A p \in Producers : ppc[p] = "idle"

\* Mutant of DMuFree: Lock never waits.
DMuFreeAlways == TRUE

\* Mutant of DMuFree: Lock waits although the mutex has been released.
DMuFreeNever == FALSE

\* d.mu.Lock() blocks while the mutex is held.
DMuFree == mu = "free"

\* Mutant of Stored: the value is put in front of the slice.
StoredInFront(s, v) == <<v>> \o s

\* Send, line 24: append(d.values, v) on the slice value s.
Stored(s, v) == Append(s, v)

\* Mutant of DrainResult: the last stored value is left out.
DrainResultButLast(s) == IF s = <<>> THEN s ELSE SubSeq(s, 1, Len(s) - 1)

\* Drain, line 41: `return d.values`.
DrainResult(s) == s

\* The record of a Drain call that returns now with result r: the Send calls
\* that had returned when it began, those begun by now, and whether no Send
\* call was in progress or returned while it ran.
DrainRecord(r) ==
    [result |-> r,
     sent |-> rbegin.sent,
     begun |-> [p \in Producers |-> Begun(p)],
     quiet |-> rbegin.quiet /\ ProducersIdle /\ psent = rbegin.sent]

\* NewDrainer, lines 15-19: an empty Drain, its mutex free.
MDNewDrainer ==
    /\ values = <<>>
    /\ mu = "free"

\* A producer calls Send, line 22.
MDSendBegin(p) ==
    /\ ppc[p] = "idle"
    /\ psent[p] < MaxSends
    /\ ppc' = [ppc EXCEPT ![p] = "lock"]
    /\ UNCHANGED <<poolSide, crashed, values, mu, chClosed, doneClosed, cpc,
                   cval, psent, psnap, rpc, rbegin, drains, spc, shutdowns>>

\* Send, lines 23-24: the mutex is taken and append reads d.values.
MDSendLock(p) ==
    /\ ppc[p] = "lock"
    /\ DMuFree
    /\ mu' = "producer"
    /\ psnap' = [psnap EXCEPT ![p] = values]
    /\ ppc' = [ppc EXCEPT ![p] = "locked"]
    /\ UNCHANGED <<poolSide, crashed, values, chClosed, doneClosed, cpc, cval,
                   psent, rpc, rbegin, drains, spc, shutdowns>>

\* Send, lines 24-27: the grown slice is stored, Broadcast wakes nobody (no
\* goroutine ever waits on d.cond), the mutex is released and Send returns.
MDSendAppend(p) ==
    /\ ppc[p] = "locked"
    /\ values' = Stored(psnap[p], ValueOf(p, psent[p] + 1))
    /\ mu' = "free"
    /\ psent' = [psent EXCEPT ![p] = @ + 1]
    /\ ppc' = [ppc EXCEPT ![p] = "idle"]
    /\ UNCHANGED <<poolSide, crashed, chClosed, doneClosed, cpc, cval, psnap,
                   rpc, rbegin, drains, spc, shutdowns>>

\* The reader calls Drain, line 38.
MDDrainBegin ==
    /\ rpc = "idle"
    /\ Len(drains) < MaxDrains
    /\ rpc' = "lock"
    /\ rbegin' = [sent |-> psent, quiet |-> ProducersIdle]
    /\ UNCHANGED <<poolSide, crashed, values, mu, chClosed, doneClosed, cpc,
                   cval, ppc, psent, psnap, drains, spc, shutdowns>>

\* Drain, line 39: the mutex is taken.
MDDrainLock ==
    /\ rpc = "lock"
    /\ DMuFree
    /\ mu' = "reader"
    /\ rpc' = "locked"
    /\ UNCHANGED <<poolSide, crashed, values, chClosed, doneClosed, cpc, cval,
                   ppc, psent, psnap, rbegin, drains, spc, shutdowns>>

\* Drain, lines 40-41: d.values is returned and the deferred Unlock runs.
MDDrainReturn ==
    /\ rpc = "locked"
    /\ drains' = Append(drains, DrainRecord(DrainResult(values)))
    /\ mu' = "free"
    /\ rpc' = "idle"
    /\ UNCHANGED <<poolSide, crashed, values, chClosed, doneClosed, cpc, cval,
                   ppc, psent, psnap, rbegin, spc, shutdowns>>

\* A Drainer made by NewDrainer, producers and a reader that have not
\* called it yet; there is no Pool activity.
MDInit ==
    /\ testMode = FALSE
    /\ task = [t \in TaskIds |-> NewTask]
    /\ behaviour = [t \in TaskIds |-> [always |-> FALSE, failFirst |-> 0]]
    /\ calls = [t \in TaskIds |-> 0]
    /\ NewPool
    /\ entries = <<>>
    /\ pc = <<>>
    /\ i = <<>>
    /\ currentSleep = <<>>
    /\ err = <<>>
    /\ snap = <<>>
    /\ slept = <<>>
    /\ callerPc = "none"
    /\ pending = <<>>
    /\ waitErr = NoErr
    /\ crashed = FALSE
    /\ started = <<>>
    /\ submitted = <<>>
    /\ failOrder = <<>>
    /\ limitLate = FALSE
    /\ ownPolicy = task
    /\ NoAlias
    /\ poolI = <<>>
    /\ poolSleep = <<>>
    /\ NoDrainer
    /\ MDNewDrainer

MDNext ==
    \/ \E p \in Producers : MDSendBegin(p)
    \/ \E p \in Producers : MDSendLock(p)
    \/ \E p \in Producers : MDSendAppend(p)
    \/ MDDrainBegin
    \/ MDDrainLock
    \/ MDDrainReturn

MutexDrainSpec == MDInit /\ [][MDNext]_vars

\* ---------------------- the slice Drain returns (drain.go lines 24 and 41)
\* Drain returns d.values itself: a slice header that shares its backing
\* array with d.values until an append of Send has to reallocate. The
\* specification below follows the backing arrays: varr names the array of
\* d.values, retArr the array of every returned slice, and retNow what the
\* caller sees in every returned slice.

\* The value the caller stores into an element of a slice Drain returned;
\* no producer sends it.
Overwritten == <<0, 0>>

\* append, line 24: the capacity of the array allocated when the old one is
\* full.
GrowCap(c) == IF c = 0 THEN 1 ELSE 2 * c

\* Send, lines 24-27: append writes behind the last element of the backing
\* array when it has room, otherwise into a fresh array that holds a copy;
\* the mutex is released and Send returns.
DASendAppend(p) ==
    /\ ppc[p] = "locked"
    /\ values' = Stored(psnap[p], ValueOf(p, psent[p] + 1))
    /\ IF Len(psnap[p]) < vcap
       THEN UNCHANGED <<varr, vcap>>
       ELSE varr' = varr + 1 /\ vcap' = GrowCap(vcap)
    /\ mu' = "free"
    /\ psent' = [psent EXCEPT ![p] = @ + 1]
    /\ ppc' = [ppc EXCEPT ![p] = "idle"]
    /\ UNCHANGED <<testMode, task, behaviour, calls, poolVars, entries, pc, i,
                   currentSleep, err, snap, slept, callerVars, histVars,
                   ownPolicy, poolI, poolSleep, closeLog, crashed, chClosed,
                   doneClosed, cpc, cval, psnap, rpc, rbegin, drains, spc,
                   shutdowns, retArr, retNow>>

\* Drain, lines 40-41: d.values is returned, backing array included, and the
\* deferred Unlock runs.
DADrainReturn ==
    /\ rpc = "locked"
    /\ drains' = Append(drains, DrainRecord(DrainResult(values)))
    /\ retArr' = Append(retArr, varr)
    /\ retNow' = Append(retNow, DrainResult(values))
    /\ mu' = "free"
    /\ rpc' = "idle"
    /\ UNCHANGED <<testMode, task, behaviour, calls, poolVars, entries, pc, i,
                   currentSleep, err, snap, slept, callerVars, histVars,
                   ownPolicy, poolI, poolSleep, closeLog, crashed, values,
                   chClosed, doneClosed, cpc, cval, ppc, psent, psnap, rbegin,
                   spc, shutdowns, varr, vcap>>

\* The caller, once every producer has finished, assigns to element k of the
\* slice its d-th Drain call returned: the element of the backing array
\* changes, and with it every slice that has the array and reaches k.
DAOverwrite(d, k) ==
    /\ rpc = "idle"
    /\ \A p \in Producers : ppc[p] = "idle" /\ psent[p] = MaxSends
    /\ d \in 1 .. Len(retNow)
    /\ k \in 1 .. Len(retNow[d])
    /\ retNow[d][k] # Overwritten
    /\ retNow' = [x \in 1 .. Len(retNow) |->
                     IF retArr[x] = retArr[d] /\ k <= Len(retNow[x])
                     THEN [retNow[x] EXCEPT ![k] = Overwritten]
                     ELSE retNow[x]]
    /\ values' = IF varr = retArr[d]
                 THEN [values EXCEPT ![k] = Overwritten]
                 ELSE values
    /\ UNCHANGED <<testMode, task, behaviour, calls, poolVars, entries, pc, i,
                   currentSleep, err, snap, slept, callerVars, histVars,
                   ownPolicy, poolI, poolSleep, closeLog, crashed, mu, chClosed,
                   doneClosed, cpc, cval, ppc, psent, psnap, rpc, rbegin,
                   drains, spc, shutdowns, varr, vcap, retArr>>

DANext ==
    \/ \E p \in Producers : MDSendBegin(p)
    \/ \E p \in Producers : MDSendLock(p)
    \/ \E p \in Producers : DASendAppend(p)
    \/ MDDrainBegin
    \/ MDDrainLock
    \/ DADrainReturn
    \/ \E d \in 1 .. MaxDrains : \E k \in 1 .. NumProducers * MaxSends :
          DAOverwrite(d, k)

DrainAliasSpec == MDInit /\ [][DANext]_vars

\* --------------------------------- src/drain.go, lines 43-133 (channel Drain)
\* NewDrainer, lines 64-89: an unbuffered channel, an empty slice, an open
\* done channel and the collector goroutine at its select.
CDNewDrainer ==
    /\ values = <<>>
    /\ mu = "free"
    /\ chClosed = FALSE
    /\ doneClosed = FALSE
    /\ cpc = "select"

\* A producer calls Send, lines 97-98, and blocks in `d.ch <- input`.
CDSendBegin(p) ==
    /\ ~crashed
    /\ ppc[p] = "idle"
    /\ psent[p] < MaxSends
    /\ ppc' = [ppc EXCEPT ![p] = "sending"]
    /\ UNCHANGED <<poolSide, crashed, values, mu, chClosed, doneClosed, cpc,
                   cval, psent, psnap, rpc, rbegin, drains, spc, shutdowns>>

\* Send, line 98, on a closed channel: the send panics.
CDSendPanic(p) ==
    /\ ~crashed
    /\ ppc[p] = "sending"
    /\ chClosed
    /\ crashed' = TRUE
    /\ UNCHANGED <<poolSide, drainVars>>

\* Collector, line 74, and Send, line 98: the collector receives the value
\* of a blocked producer, whose Send returns.
CDReceive(p) ==
    /\ ~crashed
    /\ cpc = "select"
    /\ ppc[p] = "sending"
    /\ ~chClosed
    /\ cval' = ValueOf(p, psent[p] + 1)
    /\ cpc' = "got"
    /\ psent' = [psent EXCEPT ![p] = @ + 1]
    /\ ppc' = [ppc EXCEPT ![p] = "idle"]
    /\ UNCHANGED <<poolSide, crashed, values, mu, chClosed, doneClosed,
                   psnap, rpc, rbegin, drains, spc, shutdowns>>

\* Collector, lines 74-78: the receive on the closed channel yields !ok;
\* close(d.done), which panics on a closed channel, and return. (The
\* default branch, lines 82-83, sleeps and changes nothing.)
CDChannelClosed ==
    /\ ~crashed
    /\ cpc = "select"
    /\ chClosed
    /\ IF doneClosed
       THEN crashed' = TRUE /\ UNCHANGED <<doneClosed, cpc>>
       ELSE doneClosed' = TRUE /\ cpc' = "exit" /\ UNCHANGED crashed
    /\ UNCHANGED <<poolSide, values, mu, chClosed, cval, ppc, psent, psnap,
                   rpc, rbegin, drains, spc, shutdowns>>

\* Collector, line 79: d.mutex.Lock().
CDCollectLock ==
    /\ ~crashed
    /\ cpc = "got"
    /\ DMuFree
    /\ mu' = "collector"
    /\ cpc' = "locked"
    /\ UNCHANGED <<poolSide, crashed, values, chClosed, doneClosed, cval, ppc,
                   psent, psnap, rpc, rbegin, drains, spc, shutdowns>>

\* Collector, lines 80-81: the received value is appended and the mutex
\* released; back to the select.
CDCollectAppend ==
    /\ ~crashed
    /\ cpc = "locked"
    /\ values' = Append(values, cval)
    /\ mu' = "free"
    /\ cpc' = "select"
    /\ UNCHANGED <<poolSide, crashed, chClosed, doneClosed, cval, ppc, psent,
                   psnap, rpc, rbegin, drains, spc, shutdowns>>

\* The reader calls Drain, line 102, and blocks in `<-d.done`.
CDDrainBegin ==
    /\ ~crashed
    /\ rpc = "idle"
    /\ Len(drains) < MaxDrains
    /\ rpc' = "wait"
    /\ rbegin' = [sent |-> psent, quiet |-> ProducersIdle]
    /\ UNCHANGED <<poolSide, crashed, values, mu, chClosed, doneClosed, cpc,
                   cval, ppc, psent, psnap, drains, spc, shutdowns>>

\* Drain, lines 103-104: done is closed, the mutex is taken.
CDDrainLock ==
    /\ ~crashed
    /\ rpc = "wait"
    /\ doneClosed
    /\ DMuFree
    /\ mu' = "reader"
    /\ rpc' = "locked"
    /\ UNCHANGED <<poolSide, crashed, values, chClosed, doneClosed, cpc, cval,
                   ppc, psent, psnap, rbegin, drains, spc, shutdowns>>

\* Drain, lines 105-106: d.values is returned and the deferred Unlock runs.
CDDrainReturn ==
    /\ ~crashed
    /\ rpc = "locked"
    /\ drains' = Append(drains, DrainRecord(values))
    /\ mu' = "free"
    /\ rpc' = "idle"
    /\ UNCHANGED <<poolSide, crashed, values, chClosed, doneClosed, cpc, cval,
                   ppc, psent, psnap, rbegin, spc, shutdowns>>

\* ShutDown, lines 116-122, on a Drainer that is not nil: the mutex is
\* taken.
CDShutDownLock ==
    /\ ~crashed
    /\ spc = "idle"
    /\ shutdowns < MaxShutDowns
    /\ DMuFree
    /\ mu' = "closer"
    /\ spc' = "locked"
    /\ shutdowns' = shutdowns + 1
    /\ UNCHANGED <<poolSide, crashed, values, chClosed, doneClosed, cpc, cval,
                   ppc, psent, psnap, rpc, rbegin, drains>>

\* ShutDown, lines 124-129: nothing to do when done is closed; otherwise
\* close(d.ch), which panics on a closed channel.
CDShutDownClose ==
    /\ ~crashed
    /\ spc = "locked"
    /\ IF doneClosed
       THEN spc' = "unlock" /\ UNCHANGED <<chClosed, crashed>>
       ELSE IF chClosed
       THEN crashed' = TRUE /\ UNCHANGED <<chClosed, spc>>
       ELSE chClosed' = TRUE /\ spc' = "closing" /\ UNCHANGED crashed
    /\ UNCHANGED <<poolSide, values, mu, doneClosed, cpc, cval, ppc, psent,
                   psnap, rpc, rbegin, drains, shutdowns>>

\* ShutDown, line 130: close(d.done), which panics on a closed channel.
CDShutDownDone ==
    /\ ~crashed
    /\ spc = "closing"
    /\ IF doneClosed
       THEN crashed' = TRUE /\ UNCHANGED <<doneClosed, spc>>
       ELSE doneClosed' = TRUE /\ spc' = "unlock" /\ UNCHANGED crashed
    /\ UNCHANGED <<poolSide, values, mu, chClosed, cpc, cval, ppc, psent,
                   psnap, rpc, rbegin, drains, shutdowns>>

\* ShutDown, line 122: the deferred Unlock; ShutDown returns.
CDShutDownReturn ==
    /\ ~crashed
    /\ spc = "unlock"
    /\ mu' = "free"
    /\ spc' = "idle"
    /\ UNCHANGED <<poolSide, crashed, values, chClosed, doneClosed, cpc, cval,
                   ppc, psent, psnap, rpc, rbegin, drains, shutdowns>>

\* A Drainer made by NewDrainer with its collector, producers, a reader and
\* a goroutine that shuts the Drainer down; there is no Pool activity.
CDInit ==
    /\ testMode = FALSE
    /\ task = [t \in TaskIds |-> NewTask]
    /\ behaviour = [t \in TaskIds |-> [always |-> FALSE, failFirst |-> 0]]
    /\ calls = [t \in TaskIds |-> 0]
    /\ NewPool
    /\ entries = <<>>
    /\ pc = <<>>
    /\ i = <<>>
    /\ currentSleep = <<>>
    /\ err = <<>>
    /\ snap = <<>>
    /\ slept = <<>>
    /\ callerPc = "none"
    /\ pending = <<>>
    /\ waitErr = NoErr
    /\ crashed = FALSE
    /\ started = <<>>
    /\ submitted = <<>>
    /\ failOrder = <<>>
    /\ limitLate = FALSE
    /\ ownPolicy = task
    /\ NoAlias
    /\ poolI = <<>>
    /\ poolSleep = <<>>
    /\ cval = <<0, 0>>
    /\ ppc = [p \in Producers |-> "idle"]
    /\ psent = [p \in Producers |-> 0]
    /\ psnap = [p \in Producers |-> <<>>]
    /\ rpc = "idle"
    /\ rbegin = [sent |-> psent, quiet |-> TRUE]
    /\ drains = <<>>
    /\ spc = "idle"
    /\ shutdowns = 0
    /\ CDNewDrainer

CDNext ==
    \/ \E p \in Producers : CDSendBegin(p)
    \/ \E p \in Producers : CDSendPanic(p)
    \/ \E p \in Producers : CDReceive(p)
    \/ CDChannelClosed
    \/ CDCollectLock
    \/ CDCollectAppend
    \/ CDDrainBegin
    \/ CDDrainLock
    \/ CDDrainReturn
    \/ CDShutDownLock
    \/ CDShutDownClose
    \/ CDShutDownDone
    \/ CDShutDownReturn

ChanDrainSpec == CDInit /\ [][CDNext]_vars

\* ------------------- a Pool whose Tasks send to one channel Drain (pool.go,
\* drain.go lines 43-133, pool_test.go lines 193-229)
\* The caller builds one Drainer with NewDrainer and attaches it to every
\* Task with DrainTo; the operation of every Task counts its invocation,
\* sends one value and returns its result. The goroutine of entry e is
\* producer e of the Drainer; the caller of Pool.Wait is the goroutine that
\* shuts the Drainer down and, after Wait has returned, the reader.

\* Pool.Go with Tasks that all drain to the shared Drainer.
PDGo(Tasks) ==
    /\ Len(entries) + Len(Tasks) <= NumProducers
    /\ Go(Tasks)

\* Execute, line 38, and the operation up to its Send: the invocation is
\* counted, its result is fixed, and the goroutine blocks in `d.ch <- input`.
PDCall(e) ==
    LET t == entries[e]
        n == calls[t] + 1
    IN  /\ ~crashed
        /\ pc[e] = "call"
        /\ ppc[e] = "idle"
        /\ calls' = [calls EXCEPT ![t] = n]
        /\ err' = [err EXCEPT ![e] = Promise(t, n)]
        /\ pc' = [pc EXCEPT ![e] = "infn"]
        /\ ppc' = [ppc EXCEPT ![e] = "sending"]
        /\ UNCHANGED <<testMode, task, behaviour, poolVars, entries, i,
                       currentSleep, snap, slept, callerVars, crashed,
                       histVars, ownPolicy, poolI, poolSleep, aliasVars,
                       closeLog>>
        /\ UNCHANGED <<values, mu, chClosed, doneClosed, cpc, cval, psent,
                       psnap, rpc, rbegin, drains, spc, shutdowns>>

\* The operation returns after its Send has returned; Execute, lines 39-52,
\* branches on the result.
PDFnReturn(e) ==
    /\ ~crashed
    /\ pc[e] = "infn"
    /\ ppc[e] = "idle"
    /\ pc' = [pc EXCEPT ![e] =
                AfterCall(err[e], i[e], task[entries[e]].attempts)]
    /\ UNCHANGED <<testMode, task, behaviour, calls, poolVars, entries, i,
                   currentSleep, err, snap, slept, callerVars, crashed,
                   histVars, ownPolicy, poolI, poolSleep, drainVars,
                   aliasVars, closeLog>>

\* Pool.Wait, line 55: p.group.Wait() returns g.err once the wait group has
\* reached zero; the loop over p.workers begins.
PDGroupWaited ==
    /\ ~crashed
    /\ callerPc = "waiting"
    /\ GroupDone
    /\ waitErr' = gerr
    /\ callerPc' = "teardown"
    /\ UNCHANGED <<testMode, task, behaviour, calls, poolVars, entries, pc, i,
                   currentSleep, err, snap, slept, pending, crashed, histVars,
                   ownPolicy, poolI, poolSleep, drainVars, aliasVars,
                   closeLog>>

\* Pool.Wait, lines 56-58: w.ShutDown() for the next worker, which calls
\* ShutDown on the shared Drainer (worker.go lines 145-147; drain.go lines
\* 116-122: the mutex is taken).
PDShutDownLock ==
    /\ ~crashed
    /\ callerPc = "teardown"
    /\ spc = "idle"
    /\ shutdowns < Len(workers)
    /\ DMuFree
    /\ mu' = "closer"
    /\ spc' = "locked"
    /\ shutdowns' = shutdowns + 1
    /\ UNCHANGED <<poolSide, crashed, values, chClosed, doneClosed, cpc, cval,
                   ppc, psent, psnap, rpc, rbegin, drains>>

\* Pool.Wait, lines 59-61: every worker has been shut down; err is returned.
PDWaitReturn ==
    /\ ~crashed
    /\ callerPc = "teardown"
    /\ spc = "idle"
    /\ shutdowns = Len(workers)
    /\ callerPc' = "returned"
    /\ UNCHANGED <<testMode, task, behaviour, calls, poolVars, entries, pc, i,
                   currentSleep, err, snap, slept, pending, waitErr, crashed,
                   histVars, ownPolicy, poolI, poolSleep, drainVars,
                   aliasVars, closeLog>>

\* The caller calls Drain after Wait has returned (pool_test.go line 214)
\* and blocks in `<-d.done`.
PDDrainBegin ==
    /\ callerPc = "returned"
    /\ CDDrainBegin

\* The base delays of the Tasks that send to the Drainer.
PDSleeps == {2}

\* NewDrainer, NewPool and the Tasks the caller has built, before any call
\* on the Pool.
PDInit ==
    /\ testMode \in BOOLEAN
    /\ task \in [TaskIds -> RetryArgs(MaxAttempts, PDSleeps)]
    /\ behaviour \in [TaskIds -> Behaviours(MaxFailFirst)]
    /\ calls = [t \in TaskIds |-> 0]
    /\ NewPool
    /\ entries = <<>>
    /\ pc = <<>>
    /\ i = <<>>
    /\ currentSleep = <<>>
    /\ err = <<>>
    /\ snap = <<>>
    /\ slept = <<>>
    /\ callerPc = "idle"
    /\ pending = <<>>
    /\ waitErr = NoErr
    /\ crashed = FALSE
    /\ started = <<>>
    /\ submitted = <<>>
    /\ failOrder = <<>>
    /\ limitLate = FALSE
    /\ ownPolicy = task
    /\ NoAlias
    /\ poolI = <<>>
    /\ poolSleep = <<>>
    /\ cval = <<0, 0>>
    /\ ppc = [p \in Producers |-> "idle"]
    /\ psent = [p \in Producers |-> 0]
    /\ psnap = [p \in Producers |-> <<>>]
    /\ rpc = "idle"
    /\ rbegin = [sent |-> psent, quiet |-> TRUE]
    /\ drains = <<>>
    /\ spc = "idle"
    /\ shutdowns = 0
    /\ CDNewDrainer

PDNext ==
    \/ \E Tasks \in Batches : PDGo(Tasks)
    \/ GroupGo
    \/ Wait
    \/ PDGroupWaited
    \/ PDShutDownLock
    \/ CDShutDownClose
    \/ CDShutDownDone
    \/ CDShutDownReturn
    \/ PDWaitReturn
    \/ \E e \in Entries : ClosureStart(e)
    \/ \E e \in Entries : PDCall(e)
    \/ \E e \in Entries : PDFnReturn(e)
    \/ \E e \in Entries : ExecBackoff(e)
    \/ \E e \in Entries : ClosureLock(e)
    \/ \E e \in Entries : ClosureAppend(e)
    \/ \E e \in Entries : ClosureReturn(e)
    \/ \E p \in Producers : CDReceive(p)
    \/ CDChannelClosed
    \/ CDCollectLock
    \/ CDCollectAppend
    \/ PDDrainBegin
    \/ CDDrainLock
    \/ CDDrainReturn

PoolDrainSpec == PDInit /\ [][PDNext]_vars

\* ------------------- a Pool of which one Task drains to a channel Drain
\* (pool.go lines 29-62, worker.go lines 145-153, drain.go lines 43-133)
\* The caller attaches the Drainer to Task 1 with DrainTo; the other Tasks
\* have no Drainer (t.arg.Drainer is nil) and their operation only counts its
\* invocation and returns its result.

\* DrainTo, worker.go lines 150-153: the Task whose Drainer is set.
HasDrainer(t) == t = 1

\* Execute and the operation of the Task with the Drainer, up to its Send.
TDCallSend(e) ==
    /\ HasDrainer(entries[e])
    /\ PDCall(e)

\* Execute and the operation of a Task without Drainer.
TDCallPlain(e) ==
    /\ ~HasDrainer(entries[e])
    /\ ExecCall(e)

\* Pool.Wait, lines 56-58: w.ShutDown() for the next worker of p.workers,
\* which is the Task with the Drainer (worker.go lines 145-147; drain.go
\* lines 116-122: the mutex is taken).
TDShutDownLock ==
    /\ shutdowns < Len(workers)
    /\ HasDrainer(workers[shutdowns + 1])
    /\ PDShutDownLock

\* Pool.Wait, lines 56-58: w.ShutDown() for the next worker of p.workers,
\* which has no Drainer: ShutDown returns at once (drain.go lines 117-119).
TDShutDownNil ==
    /\ ~crashed
    /\ callerPc = "teardown"
    /\ spc = "idle"
    /\ shutdowns < Len(workers)
    /\ ~HasDrainer(workers[shutdowns + 1])
    /\ shutdowns' = shutdowns + 1
    /\ UNCHANGED <<poolSide, crashed, values, mu, chClosed, doneClosed, cpc,
                   cval, ppc, psent, psnap, rpc, rbegin, drains, spc>>

TDNext ==
    \/ \E Tasks \in Batches : PDGo(Tasks)
    \/ GroupGo
    \/ Wait
    \/ PDGroupWaited
    \/ TDShutDownLock
    \/ TDShutDownNil
    \/ CDShutDownClose
    \/ CDShutDownDone
    \/ CDShutDownReturn
    \/ PDWaitReturn
    \/ \E e \in Entries : ClosureStart(e)
    \/ \E e \in Entries : TDCallSend(e)
    \/ \E e \in Entries : TDCallPlain(e)
    \/ \E e \in Entries : PDFnReturn(e)
    \/ \E e \in Entries : ExecBackoff(e)
    \/ \E e \in Entries : ClosureLock(e)
    \/ \E e \in Entries : ClosureAppend(e)
    \/ \E e \in Entries : ClosureReturn(e)
    \/ \E p \in Producers : CDReceive(p)
    \/ CDChannelClosed
    \/ CDCollectLock
    \/ CDCollectAppend
    \/ PDDrainBegin
    \/ CDDrainLock
    \/ CDDrainReturn

TeardownSpec == PDInit /\ [][TDNext]_vars

\* ------------------------------------------- Drainers under fair scheduling
\* The Go scheduler runs every runnable goroutine eventually, so a step
\* that waits for nothing is weakly fair. A goroutine waiting for the mutex
\* or in a channel send is not passed over forever while the resource keeps
\* becoming available (sync.Mutex hands the lock to a starving waiter, and
\* the senders blocked on a channel are served in arrival order), so taking
\* the mutex and the hand-over of a value are strongly fair.

\* Mutex variant, drain.go lines 21-42.
MDFairness ==
    /\ \A p \in Producers : SF_vars(MDSendLock(p))
    /\ \A p \in Producers : WF_vars(MDSendAppend(p))
    /\ SF_vars(MDDrainLock)
    /\ WF_vars(MDDrainReturn)

FairMutexDrainSpec == MutexDrainSpec /\ MDFairness

\* Channel variant, drain.go lines 70-132.
CDFairness ==
    /\ \A p \in Producers : SF_vars(CDReceive(p))
    /\ SF_vars(CDCollectLock)
    /\ WF_vars(CDCollectAppend)
    /\ WF_vars(CDChannelClosed)
    /\ SF_vars(CDDrainLock)
    /\ WF_vars(CDDrainReturn)
    /\ WF_vars(CDShutDownClose)
    /\ WF_vars(CDShutDownDone)
    /\ WF_vars(CDShutDownReturn)

FairChanDrainSpec == ChanDrainSpec /\ CDFairness

\* ------------------------------------------- a Pool used again after Wait
\* Wait returns the Pool to its caller (pool.go lines 53-62), which may call
\* Wait again or submit more Tasks with Go and then wait for them; the
\* errgroup and its first error stay those of the Pool.

\* The caller goes on with the Pool after Wait has returned.
CallerResume ==
    /\ ~crashed
    /\ callerPc = "returned"
    /\ callerPc' = "idle"
    /\ UNCHANGED extVars
    /\ UNCHANGED <<testMode, task, behaviour, calls, poolVars, entries, pc, i,
                   currentSleep, err, snap, slept, pending, waitErr, crashed,
                   histVars>>

ReuseNext ==
    \/ CallerResume
    \/ \E Tasks \in Batches : Go(Tasks)
    \/ GroupGo
    \/ Wait
    \/ WaitReturn
    \/ \E e \in Entries : ClosureStart(e)
    \/ \E e \in Entries : ExecCall(e)
    \/ \E e \in Entries : ExecBackoff(e)
    \/ \E e \in Entries : ClosureLock(e)
    \/ \E e \in Entries : ClosureAppend(e)
    \/ \E e \in Entries : ClosureReturn(e)

ReuseSpec == CloseInit /\ [][ReuseNext]_vars

\* ==================================================================
\* Properties
\* ==================================================================
RECURSIVE Flatten(_)
\* The concatenation of a sequence of batches.
Flatten(ss) == IF ss = <<>> THEN <<>> ELSE Head(ss) \o Flatten(Tail(ss))

RECURSIVE Sum(_, _)
\* The sum of f over the set S.
Sum(f, S) ==
    IF S = {} THEN 0
    ELSE LET x == CHOOSE y \in S : TRUE IN f[x] + Sum(f, S \ {x})

\* Entries that have been admitted and whose goroutine has not finished.
InFlight == {e \in Entries : pc[e] # "done"}

\* Entries that ended with an error, and those that ended at all.
Failed == {e \in Entries : pc[e] = "done" /\ err[e] # NoErr}

Returned == callerPc = "returned"

\* The limit was set to L >= 1 before the first submission and not touched
\* since.
LimitFixed == ~semNil /\ semCap >= 1 /\ ~limitLate

\* C1: with a limit L >= 1 configured before any task starts, the number of
\* admitted tasks whose goroutine has not finished (hence also of those that
\* have not reached their terminal outcome) never exceeds L, backoff sleeps
\* included.
C1_LimitRespected == LimitFixed => Cardinality(InFlight) <= semCap

\* C1 witness: the limit is reached with a task sleeping in backoff while
\* Go is blocked on the next admission.
C1_Witness ==
    /\ LimitFixed
    /\ callerPc = "go"
    /\ Cardinality(InFlight) = semCap
    /\ \E e \in Entries : pc[e] = "backoff"

\* C2: when Wait has returned, every task of every preceding Go call has
\* been started and has finished; as a finished goroutine takes no step, no
\* operation is invoked after Wait has returned.
C2_WaitJoinsAll ==
    Returned =>
        /\ Len(entries) = Len(Flatten(submitted))
        /\ pending = <<>>
        /\ \A e \in Entries : pc[e] = "done"

\* C2 witness: Wait has returned after two Go calls, one of whose tasks
\* went through a backoff sleep.
C2_Witness ==
    /\ Returned
    /\ Len(submitted) >= 2
    /\ \E e \in Entries : slept[e] # <<>>

\* All submitted tasks have an operation that succeeds on every call.
AllSucceed ==
    \A k \in 1 .. Len(submitted) : \A j \in 1 .. Len(submitted[k]) :
        behaviour[submitted[k][j]] = [always |-> FALSE, failFirst |-> 0]

\* C4: after Wait on N always-succeeding tasks, under any limit, Wait
\* returned no error, the error log is empty and the operations were invoked
\* exactly N times in total.
C4_AllSucceed ==
    (Returned /\ AllSucceed) =>
        /\ waitErr = NoErr
        /\ Errors = <<(<<>>), FALSE>>
        /\ Sum(calls, TaskIds) = Len(Flatten(submitted))

\* C4 witness: a limited Pool has run a full batch of succeeding tasks.
C4_Witness ==
    /\ Returned
    /\ AllSucceed
    /\ ~semNil
    /\ Len(entries) = MaxEntries

\* C5: Execute is begun exactly once for every started entry, never twice,
\* and when Wait has returned the entries are exactly the submitted ones, one
\* goroutine per entry of every batch, repeated Task objects included.
C5_ExecutedOnce ==
    /\ \A e \in Entries : started[e] = (IF pc[e] = "start" THEN 0 ELSE 1)
    /\ Returned => entries = Flatten(submitted)

\* C5 witness: a batch naming the same Task object twice has been run, each
\* entry executed once.
C5_Witness ==
    /\ Returned
    /\ \E k \in 1 .. Len(submitted) :
          /\ Len(submitted[k]) >= 2
          /\ submitted[k][1] = submitted[k][2]
    /\ \A e \in Entries : started[e] = 1
    /\ Len(entries) >= 2

\* The direct Execute call has ended: it returned or the process died.
ExecEnded == pc[1] = "executed" \/ crashed

\* C3: under fair scheduling, with no limit or a limit L >= 1 fixed before
\* the first submission, a Go call blocked on admission eventually gets all
\* its tasks admitted and returns, and a Wait call eventually returns.
C3_Terminates ==
    /\ (callerPc = "go" /\ ~limitLate) ~> (callerPc = "idle")
    /\ (callerPc = "waiting" /\ ~limitLate) ~> Returned

\* The same progress property, allowing for the death of the process: the
\* only way a run fails to terminate is the panic of a backoff.
C3_TerminatesUnlessPanic ==
    /\ (callerPc = "go" /\ ~limitLate) ~> (callerPc = "idle" \/ crashed)
    /\ (callerPc = "waiting" /\ ~limitLate) ~> (Returned \/ crashed)

\* C6: a Task with attempts R >= 1 whose operation first succeeds on its
\* k-th invocation, k <= R, ends its Execute with exactly k invocations and a
\* nil result, and never invokes the operation more than k times.
C6_SucceedsOnKth ==
    LET R == task[1].attempts
        k == behaviour[1].failFirst + 1
    IN  (R >= 1 /\ ~behaviour[1].always /\ k <= R) =>
            /\ calls[1] <= k
            /\ ExecEnded =>
                  /\ pc[1] = "executed"
                  /\ err[1] = NoErr
                  /\ calls[1] = k

\* C7: a Task with attempts R >= 1 whose operation always fails ends its
\* Execute with exactly R invocations and the error of the R-th invocation.
C7_FailsWithLastError ==
    LET R == task[1].attempts
    IN  (R >= 1 /\ behaviour[1].always) =>
            /\ calls[1] <= R
            /\ ExecEnded =>
                  /\ pc[1] = "executed"
                  /\ err[1] = ErrOf(1, R)
                  /\ calls[1] = R

\* An entry has reached its terminal outcome: it was executed once and
\* ended with success or with a failure of its last permitted attempt.
Terminal(e) ==
    /\ pc[e] = "done"
    /\ started[e] = 1
    /\ err[e] = NoErr \/ i[e] + 1 >= task[entries[e]].attempts

\* C8: when Wait has returned, every submitted entry has been executed to
\* its own terminal outcome, whatever the outcome of its siblings.
C8_NoCancellation ==
    Returned =>
        \A n \in 1 .. Len(Flatten(submitted)) : n \in Entries /\ Terminal(n)

\* C8 witness: under limit 1 the first entry failed before the second was
\* admitted, and the second was still executed, successfully.
C8_Witness ==
    /\ Returned
    /\ LimitFixed
    /\ semCap = 1
    /\ Len(entries) = 2
    /\ err[1] # NoErr
    /\ err[2] = NoErr
    /\ Terminal(2)

\* C9: when Wait has returned, the error log has exactly one entry per
\* failed task, equal to that task's terminal error, and nothing else.
C9_ErrorLogComplete ==
    Returned =>
        /\ Len(Errors[1]) = Cardinality(Failed)
        /\ \A e \in Failed :
              Cardinality({k \in 1 .. Len(Errors[1]) : Errors[1][k] = err[e]})
                 = 1

\* C9 witness: two tasks running without a limit have both failed, one of
\* them after a retry, and both errors are in the log.
C9_Witness ==
    /\ Returned
    /\ semNil
    /\ Cardinality(Failed) = 2
    /\ \E e \in Failed : slept[e] # <<>>
    /\ Len(Errors[1]) = 2

\* The smallest element of a non-empty set of entries.
MinOf(S) == CHOOSE x \in S : \A y \in S : x <= y

BySubmission ==
    SelectSeq([e \in 1 .. Len(entries) |-> err[e]], LAMBDA x : x # NoErr)

EntriesOf(t) == {e \in Entries : entries[e] = t}

\* The attempts an execution of Task t in the Pool is allowed.
EffAttempts(t) == IF retry.set THEN retry.attempts ELSE task[t].attempts

\* The operation of Task t fails fewer times than one execution may try.
SucceedsWithin(t) ==
    ~behaviour[t].always /\ behaviour[t].failFirst < EffAttempts(t)

\* C12: a task whose operation succeeds within its permitted attempts never
\* has an error of its own in the error log or in the group's (and Wait's)
\* error, while every failed attempt is an invocation: after Wait the
\* operation was invoked once per failure plus once per entry.
C12_RetriesNotSurfaced ==
    \A t \in TaskIds : SucceedsWithin(t) =>
        /\ \A k \in 1 .. Len(Errors[1]) : Errors[1][k][1] # t
        /\ gerr[1] # t
        /\ waitErr[1] # t
        /\ calls[t] <= behaviour[t].failFirst
                         + Cardinality({e \in EntriesOf(t) : started[e] = 1})
        /\ (Returned /\ EntriesOf(t) # {}) =>
              calls[t] = behaviour[t].failFirst + Cardinality(EntriesOf(t))

\* C12 witness: Wait returned no error and the log is empty although one
\* task failed an attempt, slept and succeeded on its retry, which gives more
\* invocations than entries.
C12_Witness ==
    /\ Returned
    /\ Len(entries) = 2
    /\ \E e \in Entries : /\ slept[e] # <<>>
                          /\ err[e] = NoErr
                          /\ behaviour[entries[e]].failFirst = 1
    /\ Errors = <<(<<>>), FALSE>>
    /\ waitErr = NoErr
    /\ Sum(calls, TaskIds) = 3

\* The execution of entry e has ended (Execute has returned).
Ended(e) == pc[e] \in {"executed", "locked", "ret", "done"}

\* Execute calls begun on Task object t.
StartedOf(t) == {e \in EntriesOf(t) : started[e] = 1}

\* Task t, run under a pool-wide retry of P attempts, is invoked at most P
\* times per execution, exactly P times in an execution that has ended, and
\* P times per entry once all its entries have ended.
InvokedPoolAttempts(t) ==
    LET P == retry.attempts
    IN  /\ calls[t] <= P * Cardinality(StartedOf(t))
        /\ \A e \in EntriesOf(t) : Ended(e) => (i[e] + 1 = P /\ err[e] # NoErr)
        /\ (\A e \in EntriesOf(t) : Ended(e)) =>
              calls[t] = P * Cardinality(EntriesOf(t))

\* Every submitted task was built without a retry policy and always fails.
AllPlainFailing ==
    \A k \in 1 .. Len(submitted) : \A j \in 1 .. Len(submitted[k]) :
        /\ ownPolicy[submitted[k][j]] = NewTask
        /\ behaviour[submitted[k][j]].always

C13_PoolRetryReplaces ==
    \A t \in TaskIds :
        (retry.set /\ behaviour[t].always) =>
            /\ calls[t] <= retry.attempts * Cardinality(EntriesOf(t))
            /\ (EntriesOf(t) # {} /\ \A e \in EntriesOf(t) : pc[e] = "done") =>
                  calls[t] = retry.attempts * Cardinality(EntriesOf(t))

\* ------------------------------------------------------------ the Drainer
\* Sequence a is a prefix of sequence b.
IsPrefix(a, b) == Len(a) <= Len(b) /\ SubSeq(b, 1, Len(a)) = a

\* The number of times v occurs in sequence s.
Count(s, v) == Cardinality({k \in 1 .. Len(s) : s[k] = v})

\* The Drain calls that have returned, in the order they returned.
DrainCalls == 1 .. Len(drains)

\* C15: a Drain call made after one producer has sent v1..vm (m >= 0), while
\* no Send is in progress and the other producers have sent nothing,
\* returns exactly <<v1, ..., vm>>.
C15_RoundTrip ==
    \A d \in DrainCalls : \A p \in Producers :
        (drains[d].quiet /\ \A q \in Producers \ {p} : drains[d].begun[q] = 0)
            => drains[d].result =
                  [k \in 1 .. drains[d].sent[p] |-> ValueOf(p, k)]

\* C15 witness: one producer has sent MaxSends values, the others none, and
\* a Drain call made afterwards returned that many values.
C15_Witness ==
    \E d \in DrainCalls : \E p \in Producers :
        /\ drains[d].quiet
        /\ drains[d].sent[p] = MaxSends
        /\ \A q \in Producers \ {p} : drains[d].begun[q] = 0
        /\ Len(drains[d].result) = MaxSends

\* C16: no step of a Drain call changes the stored values, and two Drain
\* calls with no Send call in progress or returning from the beginning of
\* the first to the return of the second return equal sequences.
C16_DrainIdempotent ==
    /\ [](\A a, b \in DrainCalls :
             (/\ a < b
              /\ drains[a].quiet
              /\ drains[b].quiet
              /\ drains[a].sent = drains[b].sent)
                 => drains[a].result = drains[b].result)
    /\ [][rpc' # rpc => values' = values]_vars

\* C17: a Drain call that begins when all m Send calls made so far, by any
\* number of producers, have returned, and during which no Send runs,
\* returns a sequence of length m that holds every sent value exactly once.
C17_NoLossNoDup ==
    \A d \in DrainCalls :
        drains[d].quiet =>
            /\ Len(drains[d].result) = Sum(drains[d].sent, Producers)
            /\ \A p \in Producers : \A k \in 1 .. drains[d].sent[p] :
                  Count(drains[d].result, ValueOf(p, k)) = 1

\* C18: in every Drain result, two values of one producer appear in the
\* order that producer sent them.
C18_ProducerOrder ==
    \A d \in DrainCalls : \A x, y \in 1 .. Len(drains[d].result) :
        LET a == drains[d].result[x]
            b == drains[d].result[y]
        IN  (a[1] = b[1] /\ a[2] < b[2]) => x < y

\* C18 witness: a Drain result in which a value of the second producer lies
\* between two values of the first.
C18_Witness ==
    \E d \in DrainCalls :
        drains[d].result = <<ValueOf(1, 1), ValueOf(2, 1), ValueOf(1, 2)>>

\* C19: every step leaves the stored values in place and at most appends to
\* them, and of two Drain calls the result of the one that returned first is
\* a prefix of the result of the other.
C19_AppendOnly ==
    /\ [](\A a, b \in DrainCalls :
             a < b => IsPrefix(drains[a].result, drains[b].result))
    /\ [][IsPrefix(values, values')]_vars

\* C19 witness: two Drain calls with Sends of both producers between them;
\* the second result extends the non-empty first one.
C19_Witness ==
    /\ Len(drains) = 2
    /\ drains[1].result # <<>>
    /\ Len(drains[2].result) >= Len(drains[1].result) + 2
    /\ \A p \in Producers : drains[2].sent[p] > drains[1].sent[p]

\* C20: a Drain result holds every value whose Send call had returned when
\* the Drain call began, holds no value twice, and holds only values of Send
\* calls begun before the Drain call returned.
C20_PrefixConsistent ==
    \A d \in DrainCalls :
        LET r == drains[d].result
        IN  /\ \A p \in Producers : \A k \in 1 .. drains[d].sent[p] :
                  Count(r, ValueOf(p, k)) = 1
            /\ \A x, y \in 1 .. Len(r) : r[x] = r[y] => x = y
            /\ \A x \in 1 .. Len(r) :
                  /\ r[x][1] \in Producers
                  /\ r[x][2] \in 1 .. drains[d].begun[r[x][1]]

\* ------------------------------------------------ a Pool and its Drainer
\* C21: once Pool.Wait has returned, every Drain call on the Drainer the
\* Tasks of the batch sent to returns every value they sent exactly once
\* (values of attempts that failed included): no value of a Send that
\* returned before Wait returned is missing from the result.
C21_DrainAfterWait ==
    Returned =>
        \A d \in DrainCalls : \A e \in Entries : \A k \in 1 .. psent[e] :
            Count(drains[d].result, ValueOf(e, k)) = 1

\* C22: the sequence Drain returns is a snapshot of its own: a Send that
\* returns after the Drain call changes no sequence Drain has returned, and
\* a caller that overwrites an element of a returned sequence does not
\* change d.values, which is what every later Drain call returns.
C22_FreshSnapshot ==
    [][/\ (\E p \in Producers : psent'[p] = psent[p] + 1) =>
            \A d \in 1 .. Len(retNow) : retNow'[d] = retNow[d]
       /\ (Len(retNow') = Len(retNow) /\ retNow' # retNow) =>
            values' = values]_vars

\* The values of s are grouped by sending entry, in submission order.
BySender(s) ==
    \A a \in 1 .. Len(s) : \A b \in 1 .. Len(s) :
        a < b => s[a][1] <= s[b][1]

C24_LateLimitFatal ==
    [][(<<semNil, semCap>>' # <<semNil, semCap>> /\ InFlight # {}) =>
          crashed']_vars

\* C25: Close on a Pool whose submitted tasks have not all completed is not
\* silently tolerated: every such call ends the process with a panic or
\* changes something of the Pool or of its goroutines.
C25_EarlyCloseLoud ==
    [][(Len(closeLog') > Len(closeLog) /\ InFlight # {}) =>
          (crashed' \/ <<poolVars, pc, err, callerVars>>' #
                          <<poolVars, pc, err, callerVars>>)]_vars

\* C26: the scenario of TestConcurrentClientWithAllRetry under a limit of
\* 1: after Wait has returned, the shared counter of invocations of A and B
\* is exactly 5 and Wait has returned A's error "bye 1".
C26_FiveInvocations ==
    (Returned /\ LimitFixed /\ semCap = 1 /\ Len(entries) = 2) =>
        /\ NumInvocations = 5
        /\ waitErr # NoErr /\ waitErr[1] = 1

\* ------------------------------------------------------------ the backoff
RECURSIVE Pow2(_)
Pow2(n) == IF n = 0 THEN 1 ELSE 2 * Pow2(n - 1)

\* The failing invocations an execution with R attempts can see: all of
\* them when the operation always fails.
FailingCalls(t, R) ==
    IF behaviour[t].always THEN R ELSE behaviour[t].failFirst

\* C27: an execution with attempts R >= 1 and base delay d whose operation
\* fails on its first f invocations sleeps exactly min(f, R-1) times, the
\* i-th sleep (i = 0, 1, ...) is based on d*2^i (at least that long and at
\* most half as long again), and it sleeps neither after a success nor
\* after the last failed attempt.
C27_BackoffSchedule ==
    LET R == task[1].attempts
        d == task[1].sleep
        n == MinOf({FailingCalls(1, R), R - 1})
    IN  R >= 1 =>
            /\ Len(slept[1]) <= n
            /\ \A k \in 1 .. Len(slept[1]) :
                  /\ slept[1][k] >= d * Pow2(k - 1)
                  /\ slept[1][k] <= d * Pow2(k - 1) + (d * Pow2(k - 1)) \div 2
            /\ ExecEnded => Len(slept[1]) = n

\* The duration of the sleep a goroutine has just begun.
LastSleep(e) == slept[e][Len(slept[e])]

\* C28: a backoff sleep with current base c lasts at least c and at most
\* c + c/2, and its jitter is drawn anew for every sleep instead of being
\* the fixed c/2: wherever a Task is about to sleep with c >= 2, no sleep
\* outside that range can follow and a sleep shorter than c + c/2 can.
C28_JitterDrawn ==
    \A e \in Entries :
        (pc[e] = "gpsleep" /\ currentSleep[e] >= 2) =>
            /\ ~ENABLED (/\ GPSleep(e)
                         /\ \/ LastSleep(e)' < currentSleep[e]
                            \/ LastSleep(e)' >
                                  currentSleep[e] + currentSleep[e] \div 2)
            /\ ENABLED (/\ GPSleep(e)
                        /\ LastSleep(e)' <
                              currentSleep[e] + currentSleep[e] \div 2)

\* ----------------------------------------------------- shutting down
\* The next step of the collector or of ShutDown is a close of a channel
\* that is closed already: close(d.done) of line 76, close(d.done) of line
\* 130 or close(d.ch) of line 129.
ClosesClosed ==
    \/ cpc = "select" /\ chClosed /\ doneClosed
    \/ spc = "closing" /\ doneClosed
    \/ spc = "locked" /\ ~doneClosed /\ chClosed

\* C29: shutting a channel Drainer down is safe: whatever the number of
\* ShutDown calls and the interleaving with the collector, the value
\* channel and the done channel are closed once each; no step closes a
\* channel that is already closed (which is a panic).
C29_ClosedOnce ==
    [][(~crashed /\ crashed') => ~ClosesClosed]_vars

\* C30: Pool.Wait shuts the Drainer of its Tasks down only when every
\* submitted Task has reached its terminal outcome, so during the run of a
\* Pool no Task is in a Send on a Drainer that has been shut down.
C30_TeardownLast ==
    /\ (shutdowns > 0 \/ chClosed) =>
          /\ pending = <<>>
          /\ \A e \in Entries : pc[e] = "done"
    /\ \A p \in Producers : ppc[p] = "sending" => ~chClosed

\* Wait has shut the Drainer down after two Tasks, one of them retried,
\* have sent to it.
C30_Witness ==
    /\ chClosed /\ shutdowns = 2
    /\ Len(entries) = 2
    /\ psent[1] >= 1 /\ psent[2] = 2

\* C31: a Pool shuts down every Drainer it was given: when Wait has
\* returned, the Drainer attached to a Task submitted by any Go call of the
\* Pool, also by a Go call that was followed by another Go call before
\* Wait, has been shut down, so a Drain on it is not left waiting.
C31_EveryDrainerShutDown ==
    (Returned /\ \E e \in Entries : HasDrainer(entries[e])) =>
        chClosed /\ doneClosed

\* C32: Drain never waits for producers or for a shutdown: whatever the
\* state it is called in (nothing sent yet, producers still sending, the
\* Drainer never shut down), a Drain that has been called can go on to take
\* the mutex and return as soon as the mutex is free.
C32_DrainNeverWaits ==
    (~crashed /\ rpc = "wait" /\ DMuFree) => ENABLED CDDrainLock

\* C33: Send makes progress for every producer: under fair scheduling a
\* Send that has been called returns, whatever the number of producers
\* sending at the same time and of Drain calls, and without any Drain
\* being called; the one thing that ends a Send otherwise is a ShutDown of
\* the Drainer it sends to.
C33_SendReturns ==
    \A p \in Producers : (ppc[p] # "idle") ~> (ppc[p] = "idle" \/ chClosed)

\* Both producers are in a Send at once while no Drain has been called and
\* the Drainer is open.
C33_Witness ==
    /\ \A p \in Producers : ppc[p] # "idle"
    /\ rpc = "idle" /\ drains = <<>>
    /\ ~chClosed
    /\ \E p \in Producers : psent[p] >= 1

\* C34: the error log has a single writer at a time: in every reachable
\* state at most one task goroutine is inside the section that appends to
\* p.errors, and that goroutine holds p.mutex.
C34_SingleWriter ==
    \A e1, e2 \in Entries :
        (pc[e1] = "locked" /\ pc[e2] = "locked") => (e1 = e2 /\ mutex = e1)

\* One failed goroutine is inside the section while another failed one
\* waits for the mutex.
C34_Witness ==
    \E e1, e2 \in Entries :
        /\ pc[e1] = "locked" /\ mutex = e1
        /\ pc[e2] = "executed" /\ err[e2] # NoErr

\* C35: the first-error cell is written at most once in the lifetime of a
\* Pool: once an error has been captured no step replaces it, also not the
\* failure of a Task submitted later, and once Wait has returned an error
\* every later Wait returns that same error.
C35_FirstErrorOnce ==
    [][/\ gerr # NoErr => gerr' = gerr
       /\ waitErr # NoErr => waitErr' = waitErr]_vars

\* Wait has returned an error, a Task submitted afterwards has failed with
\* another error, and the caller is in Wait again.
C35_Witness ==
    /\ callerPc = "waiting"
    /\ waitErr # NoErr
    /\ gerr = waitErr
    /\ Len(failOrder) = 2
    /\ pc[failOrder[2]] = "done"
    /\ err[failOrder[2]] # gerr
    /\ Len(submitted) = 2

\* C36: admission follows submission order: the goroutines that group.Go
\* has admitted (a slot taken, the goroutine started) are at all times, in
\* admission order, the first Tasks of the submitted batches, so within one
\* Go call Task j is never admitted before Task i when i < j, whatever the
\* limit; the order in which they run and complete is not constrained.
C36_AdmissionOrder ==
    IsPrefix(entries, Flatten(submitted))

\* Two different Tasks of one Go call, admitted in submission order; the
\* second has completed while the first has not yet run.
C36_Witness ==
    /\ Len(submitted) = 1
    /\ Len(entries) = 2
    /\ entries[1] # entries[2]
    /\ entries = submitted[1]
    /\ pc[1] = "start"
    /\ pc[2] = "done"

\* C37: after Wait has returned, its result and the error log agree: Wait
\* returned nil exactly when Errors() is empty and its flag false, and a
\* non-nil error returned by Wait is one of the entries of Errors().
C37_WaitAgreesWithLog ==
    Returned =>
        /\ (waitErr = NoErr) <=> (Errors[1] = <<>>)
        /\ (waitErr = NoErr) <=> ~Errors[2]
        /\ waitErr # NoErr =>
              \E k \in 1 .. Len(Errors[1]) : Errors[1][k] = waitErr

\* Wait has returned the error of one of two failed Tasks, which is not the
\* first entry of the log.
C37_Witness ==
    /\ Returned
    /\ Len(errors) = 2
    /\ waitErr = errors[2]
    /\ waitErr # errors[1]

\* C38: submitting a Task to a Pool with a pool-wide retry affects only
\* that submission: when Wait has returned, the retry policy of every Task
\* (attempts, base delay) is the one the Task had before Go.
C38_OwnPolicyKept ==
    Returned => \A t \in TaskIds : task[t] = ownPolicy[t]

\* C39: Execute never reports success without having run the operation:
\* for every configured attempts value, 0 included, an Execute that has
\* returned nil has invoked the operation at least once.
C39_SuccessHasRun ==
    \A e \in Entries :
        (pc[e] = "executed" /\ err[e] = NoErr) => calls[entries[e]] >= 1

\* C40: retrying with a base delay of 0 or 1 is well defined: an Execute
\* with attempts >= 2 and such a base delay whose operation fails computes
\* its jitter without crashing.
C40_ZeroDelayNoCrash ==
    \A e \in Entries :
        (task[entries[e]].attempts >= 2 /\ task[entries[e]].sleep \in {0, 1})
            => ~crashed

====
